---- MODULE Spec2Model ----
(***************************************************************************)
(* A model of pytablereader's CSV loaders (pytablereader/csv/core.py) and  *)
(* of the exception classes of pytablereader/error.py.                     *)
(*                                                                         *)
(* Text is a sequence of one-character strings.  The interpreter modelled  *)
(* is Python 3 (six.PY3 is true), so the branch of lines 172-179 is the    *)
(* one CsvTableFileLoader.load takes.                                      *)
(***************************************************************************)
EXTENDS Integers, Sequences, FiniteSets, TLC

(***************************************************************************)
(* Bounds of the model.                                                    *)
(***************************************************************************)
\* longest CSV source (in characters) Init draws
MaxLen == 3
\* longest single cell Init draws for the cell normalizer
MaxCellLen == 3

(***************************************************************************)
(* Characters.                                                             *)
(***************************************************************************)
QUOTE == "\""
COMMA == ","
\* a delimiter and a quote character a caller sets in place of the defaults
SEMICOLON == ";"
APOSTROPHE == "'"
SPACE == " "
LF == "\n"
CR == "\r"
\* the end-of-line marker the tokenizer feeds itself after every line
EOL == "EOL"

\* characters of the CSV sources Init draws
Alphabet == {"a", "1", COMMA, QUOTE, SEMICOLON, APOSTROPHE, SPACE, LF, CR}
\* characters of the cells Init draws for the cell normalizer
CellAlphabet == {"1", "0", ".", "-", "e", "a"}

\* what str.strip() removes (of the characters modelled)
Whitespace == {SPACE, LF, CR, "\t"}
Digits == {"0", "1", "2", "3", "4", "5", "6", "7", "8", "9"}

RECURSIVE SeqsUpTo(_, _)
SeqsUpTo(S, n) ==
  IF n = 0 THEN {<<>>}
  ELSE LET shorter == SeqsUpTo(S, n - 1)
       IN shorter \cup {Append(s, c) : s \in {t \in shorter : Len(t) = n - 1}, c \in S}

DropFirst(s, k) == SubSeq(s, k + 1, Len(s))

RECURSIVE LStrip(_)
LStrip(s) == IF s # <<>> /\ s[1] \in Whitespace THEN LStrip(Tail(s)) ELSE s

RECURSIVE RStrip(_)
RStrip(s) ==
  IF s # <<>> /\ s[Len(s)] \in Whitespace THEN RStrip(SubSeq(s, 1, Len(s) - 1)) ELSE s

\* str.strip(): core.py line 247, and what decimal.Decimal does to its argument
Strip(s) == RStrip(LStrip(s))

(***************************************************************************)
(* The cell normalizer, core.py lines 108-120.                             *)
(*                                                                         *)
(* typepy.Integer(data).convert() and typepy.RealNumber(data).convert()    *)
(* both build decimal.Decimal(data) from a string.  Integer (strict level  *)
(* 1) succeeds when the number is finite and integral and returns          *)
(* int(Decimal(data)); RealNumber (strict level 0) succeeds on every       *)
(* finite number and returns the Decimal.  A failure is the exception      *)
(* typepy.TypeConversionError.                                             *)
(***************************************************************************)
DigitVal(c) ==
  CASE c = "0" -> 0 [] c = "1" -> 1 [] c = "2" -> 2 [] c = "3" -> 3 [] c = "4" -> 4
    [] c = "5" -> 5 [] c = "6" -> 6 [] c = "7" -> 7 [] c = "8" -> 8 [] c = "9" -> 9

AllDigits(s) == \A i \in 1..Len(s) : s[i] \in Digits

RECURSIVE DigitsToNat(_)
DigitsToNat(s) ==
  IF s = <<>> THEN 0
  ELSE 10 * DigitsToNat(SubSeq(s, 1, Len(s) - 1)) + DigitVal(s[Len(s)])

\* index of the first element of s that is in S, or 0
RECURSIVE IndexOf(_, _, _)
IndexOf(s, S, i) ==
  IF i > Len(s) THEN 0 ELSE IF s[i] \in S THEN i ELSE IndexOf(s, S, i + 1)

\* decimal.Decimal(str): [sign] (digits [. [digits]] | . digits) [(e|E) [sign] digits],
\* surrounding whitespace removed.  The value is coef * 10^exp.
DecimalParse(s) ==
  LET t == Strip(s)
      signed == t # <<>> /\ t[1] \in {"+", "-"}
      neg == signed /\ t[1] = "-"
      body == IF signed THEN Tail(t) ELSE t
      ePos == IndexOf(body, {"e", "E"}, 1)
      mant == IF ePos = 0 THEN body ELSE SubSeq(body, 1, ePos - 1)
      expo == IF ePos = 0 THEN <<>> ELSE DropFirst(body, ePos)
      eSigned == expo # <<>> /\ expo[1] \in {"+", "-"}
      eNeg == eSigned /\ expo[1] = "-"
      eDigits == IF eSigned THEN Tail(expo) ELSE expo
      dot == IndexOf(mant, {"."}, 1)
      intPart == IF dot = 0 THEN mant ELSE SubSeq(mant, 1, dot - 1)
      fracPart == IF dot = 0 THEN <<>> ELSE DropFirst(mant, dot)
      ok == /\ AllDigits(intPart) /\ AllDigits(fracPart)
            /\ Len(intPart) + Len(fracPart) >= 1
            /\ (ePos # 0 => (eDigits # <<>> /\ AllDigits(eDigits)))
      mag == DigitsToNat(intPart \o fracPart)
      e == (IF eNeg THEN 0 - DigitsToNat(eDigits) ELSE DigitsToNat(eDigits)) - Len(fracPart)
  IN IF ok THEN [ok |-> TRUE, coef |-> IF neg THEN 0 - mag ELSE mag, exp |-> e]
     ELSE [ok |-> FALSE, coef |-> 0, exp |-> 0]

\* coef * 10^exp with the trailing zeros of coef moved into exp: <<m, k>> with
\* m * 10^k the same number and m no multiple of 10 (Python's integers and
\* Decimals have no bound; the pair keeps 1e99 exact)
RECURSIVE Canon(_, _)
Canon(coef, exp) ==
  IF coef = 0 THEN <<0, 0>>
  ELSE IF coef % 10 = 0 THEN Canon(coef \div 10, exp + 1)
  ELSE <<coef, exp>>

\* whether coef * 10^exp is a whole number
IsIntegral(coef, exp) == Canon(coef, exp)[2] >= 0

\* typed cell values, num * 10^exp for a number: every value has the same
\* fields, so that any two compare
IntVal(coef, exp) ==
  [type |-> "int", num |-> Canon(coef, exp)[1], exp |-> Canon(coef, exp)[2], text |-> <<>>]
RealVal(coef, exp) ==
  [type |-> "real", num |-> Canon(coef, exp)[1], exp |-> Canon(coef, exp)[2], text |-> <<>>]
TextVal(s) == [type |-> "text", num |-> 0, exp |-> 0, text |-> s]

\* typepy.Integer(data).convert(), line 111: ok = FALSE is TypeConversionError
IntegerConvert(data) ==
  LET p == DecimalParse(data)
  IN IF p.ok /\ IsIntegral(p.coef, p.exp)
     THEN [ok |-> TRUE, value |-> IntVal(p.coef, p.exp)]
     ELSE [ok |-> FALSE, value |-> TextVal(<<>>)]

\* typepy.RealNumber(data).convert(), line 116: ok = FALSE is TypeConversionError
RealNumberConvert(data) ==
  LET p == DecimalParse(data)
  IN IF p.ok THEN [ok |-> TRUE, value |-> RealVal(p.coef, p.exp)]
     ELSE [ok |-> FALSE, value |-> TextVal(<<>>)]

\* MultiByteStrDecoder(data).unicode_str, line 120: a str is returned as it is
UnicodeStr(data) == TextVal(data)

\* a plausible slip: the real-number attempt made first
ModifyItemRealFirst(data) ==
  LET r == RealNumberConvert(data)
      i == IntegerConvert(data)
  IN IF r.ok THEN [value |-> r.value, attempts |-> <<"RealNumber">>]
     ELSE IF i.ok THEN [value |-> i.value, attempts |-> <<"RealNumber", "Integer">>]
     ELSE [value |-> UnicodeStr(data), attempts |-> <<"RealNumber", "Integer">>]

\* CsvTableLoader.__modify_item, lines 108-120, with the conversions it attempted
ModifyItemTrace(data) ==
  LET i == IntegerConvert(data)
      r == RealNumberConvert(data)
  IN IF i.ok THEN [value |-> i.value, attempts |-> <<"Integer">>]
     ELSE IF r.ok THEN [value |-> r.value, attempts |-> <<"Integer", "RealNumber">>]
     ELSE [value |-> UnicodeStr(data), attempts |-> <<"Integer", "RealNumber">>]

ModifyItem(data) == ModifyItemTrace(data).value

(***************************************************************************)
(* The tokenizer: csv.reader(lines, delimiter=..., quotechar=...,          *)
(* strict=True, skipinitialspace=True), core.py lines 173-179 and          *)
(* 246-252, with the defaults doublequote=True, escapechar=None and        *)
(* quoting=QUOTE_MINIMAL.  The states and transitions are those of         *)
(* CPython's Reader (parse_process_char, Reader_iternext).                 *)
(***************************************************************************)
\* the reader at the start of a record (parse_reset)
ParseReset == [state |-> "START_RECORD", fields |-> <<>>, field |-> <<>>, err |-> FALSE]

\* parse_save_field: the field collected so far ends and joins the record
SaveField(st, next) ==
  [st EXCEPT !.fields = Append(st.fields, st.field), !.field = <<>>, !.state = next]

\* parse_add_char
AddChar(st, c, next) == [st EXCEPT !.field = Append(st.field, c), !.state = next]

CsvError(st) == [st EXCEPT !.err = TRUE]

AfterLine(c) == IF c = EOL THEN "START_RECORD" ELSE "EAT_CRNL"

\* parse_process_char in the state START_FIELD
StartField(st, c, d) ==
  IF c \in {LF, CR, EOL} THEN SaveField(st, AfterLine(c))
  ELSE IF c = d.quotechar THEN [st EXCEPT !.state = "IN_QUOTED_FIELD"]
  ELSE IF c = SPACE /\ d.skipinitialspace THEN [st EXCEPT !.state = "START_FIELD"]
  ELSE IF c = d.delimiter THEN SaveField(st, "START_FIELD")
  ELSE AddChar(st, c, "IN_FIELD")

\* parse_process_char: one character, or EOL at the end of a line
ProcessChar(st, c, d) ==
  CASE st.state = "START_RECORD" ->
         IF c = EOL THEN st
         ELSE IF c \in {LF, CR} THEN [st EXCEPT !.state = "EAT_CRNL"]
         ELSE StartField(st, c, d)
    [] st.state = "START_FIELD" -> StartField(st, c, d)
    [] st.state = "IN_FIELD" ->
         IF c \in {LF, CR, EOL} THEN SaveField(st, AfterLine(c))
         ELSE IF c = d.delimiter THEN SaveField(st, "START_FIELD")
         ELSE AddChar(st, c, "IN_FIELD")
    [] st.state = "IN_QUOTED_FIELD" ->
         IF c = EOL THEN st
         ELSE IF c = d.quotechar THEN [st EXCEPT !.state = "QUOTE_IN_QUOTED_FIELD"]
         ELSE AddChar(st, c, "IN_QUOTED_FIELD")
    [] st.state = "QUOTE_IN_QUOTED_FIELD" ->
         IF c = d.quotechar THEN AddChar(st, c, "IN_QUOTED_FIELD")
         ELSE IF c = d.delimiter THEN SaveField(st, "START_FIELD")
         ELSE IF c \in {LF, CR, EOL} THEN SaveField(st, AfterLine(c))
         ELSE IF ~d.strict THEN AddChar(st, c, "IN_FIELD")
         ELSE CsvError(st)
    [] st.state = "EAT_CRNL" ->
         IF c \in {LF, CR} THEN st
         ELSE IF c = EOL THEN [st EXCEPT !.state = "START_RECORD"]
         ELSE CsvError(st)

\* the characters of one line and its EOL, until an error
RECURSIVE ProcessLine(_, _, _)
ProcessLine(st, line, d) ==
  IF st.err THEN st
  ELSE IF line = <<>> THEN ProcessChar(st, EOL, d)
  ELSE ProcessLine(ProcessChar(st, line[1], d), Tail(line), d)

\* the next line of a text stream: up to and with the first line feed
LineEnd(inp) ==
  LET i == IndexOf(inp, {LF}, 1) IN IF i = 0 THEN Len(inp) ELSE i

\* Reader_iternext from the state st: lines are read until a record ends.
\* kind is "row" (a raw row), "stop" (StopIteration) or "error" (csv.Error).
RECURSIVE IterLines(_, _, _)
IterLines(st, inp, d) ==
  IF inp = <<>>
  THEN IF (st.field # <<>> \/ st.state = "IN_QUOTED_FIELD") /\ d.strict
       THEN [kind |-> "error", row |-> <<>>, rest |-> inp]
       ELSE IF st.field # <<>> \/ st.state = "IN_QUOTED_FIELD"
       THEN [kind |-> "row", row |-> Append(st.fields, st.field), rest |-> inp]
       ELSE [kind |-> "stop", row |-> <<>>, rest |-> inp]
  ELSE LET n == LineEnd(inp)
           st1 == ProcessLine(st, SubSeq(inp, 1, n), d)
           rest == DropFirst(inp, n)
       IN IF st1.err THEN [kind |-> "error", row |-> <<>>, rest |-> rest]
          ELSE IF st1.state # "START_RECORD" THEN IterLines(st1, rest, d)
          ELSE [kind |-> "row", row |-> st1.fields, rest |-> rest]

\* next(self._csv_reader)
IterNext(inp, d) == IterLines(ParseReset, inp, d)

\* io.open(path, "r", encoding=...), line 174: text mode with universal
\* newlines hands "\r\n" and "\r" to the reader as "\n"
RECURSIVE UniversalNewlines(_)
UniversalNewlines(s) ==
  IF s = <<>> THEN <<>>
  ELSE IF s[1] = CR
  THEN <<LF>> \o UniversalNewlines(IF Len(s) >= 2 /\ s[2] = LF THEN DropFirst(s, 2) ELSE Tail(s))
  ELSE <<s[1]>> \o UniversalNewlines(Tail(s))

\* typepy.is_not_empty_sequence(row), line 103: a sequence with at least one element
IsNotEmptySequence(row) == Len(row) > 0

\* the whole row stream of a text: what iterating the reader to its end yields
RECURSIVE AllRows(_, _)
AllRows(inp, d) ==
  LET r == IterNext(inp, d)
  IN IF r.kind = "row" THEN <<r.row>> \o AllRows(r.rest, d)
     ELSE IF r.kind = "error" THEN <<"csv.Error">>
     ELSE <<>>

(***************************************************************************)
(* The exception classes, error.py lines 10-60, and the built-in ones the  *)
(* loaders meet.  Base gives each class its direct base class.  The class   *)
(* the loaders raise under the name DataError is declared in neither       *)
(* source file and has no entry here.                                      *)
(***************************************************************************)
Base ==
  [ValidationError |-> "Exception", InvalidNameError |-> "Exception",
   InvalidTableNameError |-> "InvalidNameError",
   InvalidHeaderNameError |-> "InvalidNameError",
   InvalidFilePathError |-> "InvalidNameError",
   InvalidDataError |-> "ValueError", EmptyDataError |-> "InvalidDataError",
   OpenError |-> "IOError", LoaderNotFoundError |-> "Exception",
   ValueError |-> "Exception", IOError |-> "Exception",
   UnicodeDecodeError |-> "ValueError", CsvError |-> "Exception"]

\* whether class c is class b or derives from it
RECURSIVE IsSubclass(_, _)
IsSubclass(c, b) ==
  IF c = b THEN TRUE
  ELSE IF c \in DOMAIN Base THEN IsSubclass(Base[c], b)
  ELSE FALSE

\* whether "except handler:" receives an exception of class kind
Except(kind, handler) == IsSubclass(kind, handler)

\* the data error the loaders raise, by the name the code gives it: "from
\* pytablereader import DataError", line 15, raised at line 106.  The name is
\* bound in the package's __init__, so its class and its bases are not known
\* here: it is a kind of its own, with no stated relation to the classes of Base
DataError == "DataError"
\* the empty-data condition the Formatter signals for a matrix of zero rows; the
\* class it raises is the Formatter's choice
EmptyDataCondition == "EmptyDataCondition"
\* what the tokenizer and the stream raise: csv.Error, UnicodeDecodeError
LowLevelErrors == {"CsvError", "UnicodeDecodeError"}

(***************************************************************************)
(* The loaders.                                                            *)
(***************************************************************************)
Variants == {"file", "text"}
NoneValue == "None"
\* TableNameTemplate, lines 194-195 and 258-259
DefaultTableNameTemplate(v) ==
  IF v = "file" THEN "%(filename)s" ELSE "%(format_name)s%(format_id)s"

\* CsvTableLoader.__init__, lines 88-96, and the subclasses' __init__
NewLoaderConfig(v) ==
  [headers |-> <<>>, delimiter |-> COMMA, quotechar |-> QUOTE,
   encoding |-> NoneValue, table_name |-> DefaultTableNameTemplate(v)]

\* header lists and encodings a caller sets before load()
HeaderChoices == {<<>>, << <<"h">>, <<"i">> >>}
EncodingChoices == {NoneValue, "utf-8"}
\* delimiters a caller sets through the delimiter setter, lines 65-67
DelimiterChoices == {COMMA, SEMICOLON}
\* quote characters a caller sets through the quotechar setter, lines 84-86
QuotecharChoices == {QUOTE, APOSTROPHE}

\* a plausible slip: the resolved encoding used but not stored
AssignEncodingSkipped(c, encoding) == c

\* "self.encoding = ...", line 170
AssignEncoding(c, encoding) == [c EXCEPT !.encoding = encoding]

\* the encoding attribute (line 96) assigned by the caller before load()
SetEncoding(c, value) == [c EXCEPT !.encoding = value]
\* the delimiter setter, lines 65-67: self.__delimiter = value
SetDelimiter(c, value) == [c EXCEPT !.delimiter = value]
\* the quotechar setter, lines 84-86: self.__quotechar = value
SetQuotechar(c, value) == [c EXCEPT !.quotechar = value]
\* the headers attribute (and its alias header_list, lines 79-82) assigned
SetHeaders(c, value) == [c EXCEPT !.headers = value]
\* the delimiter getter, lines 60-63: the stored value as a str
Delimiter(c) == c.delimiter
\* the quotechar getter, lines 69-72: the stored value as a str
Quotechar(c) == c.quotechar

\* the configurations a caller reaches with the setters before load():
\* <<headers, encoding, delimiter, quotechar>>
Configurations(encodings) ==
  HeaderChoices \X encodings \X DelimiterChoices \X QuotecharChoices
\* what the encoding detection of a file can answer (None: inconclusive)
Detections == {NoneValue, "ascii"}

NoOutcome == [kind |-> "none", header |-> <<>>, rows |-> <<>>]
Raised(kind) == [kind |-> kind, header |-> <<>>, rows |-> <<>>]

VARIABLES
  content,        \* the CSV text: what the file holds, what the text loader is given
  pathExists,     \* whether the file loader's path names a file
  todo,           \* the loaders the calling program will call load() on, in order
  pc,             \* where each loader's load() is
  cfg,            \* each loader's configuration attributes
  cfgAtEntry,     \* history: the configuration when load() was entered
  fileStream,     \* the stream io.open returns: "unopened", "open" or "closed"
  reader,         \* each loader's _csv_reader: made or not, its dialect, its unread input
  rawRows,        \* history: the raw rows the reader has yielded
  matrix,         \* the rows _to_data_matrix has collected
  lowLevel,       \* history: the error the reader raised while iterating
  trace,          \* history: the collaborators load() has called, in order
  formatterInput, \* the matrix handed to the Formatter
  outcome,        \* how load() ended: a table or the exception class raised
  cell,           \* the cell given to the cell normalizer
  cellResult,     \* its result and the conversions it attempted
  cellDone        \* whether the cell normalizer has run

loadVars == <<content, pathExists, todo, pc, cfg, cfgAtEntry, fileStream, reader, rawRows,
              matrix, lowLevel, trace, formatterInput, outcome>>
cellVars == <<cell, cellResult, cellDone>>
vars == <<loadVars, cellVars>>

NoReader == [made |-> FALSE, dialect |-> <<>>, input |-> <<>>]

\* the state after the loaders are constructed and configured
InitLoaders(callOrder, contents, configs) ==
  /\ content \in contents
  /\ todo \in callOrder
  /\ pathExists \in (IF \E i \in 1..Len(todo) : todo[i] = "file" THEN BOOLEAN ELSE {TRUE})
  /\ \E c \in configs :
       cfg = [v \in Variants |->
               IF \E i \in 1..Len(todo) : todo[i] = v
               THEN SetQuotechar(SetDelimiter(
                      SetEncoding(SetHeaders(NewLoaderConfig(v), c[1]), c[2]),
                      c[3]), c[4])
               ELSE NewLoaderConfig(v)]
  /\ cfgAtEntry = cfg
  /\ pc = [v \in Variants |-> "idle"]
  /\ fileStream = "unopened"
  /\ reader = [v \in Variants |-> NoReader]
  /\ rawRows = [v \in Variants |-> <<>>]
  /\ matrix = [v \in Variants |-> <<>>]
  /\ lowLevel = [v \in Variants |-> "none"]
  /\ trace = [v \in Variants |-> <<>>]
  /\ formatterInput = [v \in Variants |-> [calls |-> 0, matrix |-> <<>>]]
  /\ outcome = [v \in Variants |-> NoOutcome]

CellIdle ==
  /\ cell = <<>>
  /\ cellResult = [value |-> TextVal(<<>>), attempts |-> <<>>]
  /\ cellDone = FALSE

Init ==
  /\ InitLoaders({<<"file">>, <<"text">>}, SeqsUpTo(Alphabet, MaxLen),
                 Configurations(EncodingChoices))
  /\ CellIdle

\* the calling program calls load() on the next loader, once no load() is running
Call(v) ==
  /\ todo # <<>> /\ Head(todo) = v
  /\ \A w \in Variants : pc[w] \in {"idle", "done"}
  /\ pc[v] = "idle"
  /\ todo' = Tail(todo)
  /\ pc' = [pc EXCEPT ![v] = "validate"]
  /\ cfgAtEntry' = [cfgAtEntry EXCEPT ![v] = cfg[v]]
  /\ UNCHANGED <<cellVars, content, pathExists, cfg, fileStream, reader, rawRows, matrix, lowLevel,
                 trace, formatterInput, outcome>>

\* the validators (FileValidator, TextValidator): the path names a file, the text
\* is not empty
SourceValid(v) == IF v = "file" THEN pathExists ELSE content # <<>>
\* what a validator raises
ValidationFailure(v) == IF v = "file" THEN "InvalidFilePathError" ELSE "ValidationError"

\* a plausible slip: the validation's failure ignored, load() carries on
ValidateIgnored(v) ==
  /\ pc[v] = "validate"
  /\ trace' = [trace EXCEPT ![v] = Append(@, "validate")]
  /\ pc' = [pc EXCEPT ![v] = "log"]
  /\ UNCHANGED <<cellVars, content, pathExists, todo, cfg, cfgAtEntry, fileStream, reader, rawRows,
                 matrix, lowLevel, formatterInput, outcome>>

\* self._validate(), lines 168 and 243: an exception of the validator leaves load()
Validate(v) ==
  /\ pc[v] = "validate"
  /\ trace' = [trace EXCEPT ![v] = Append(@, "validate")]
  /\ IF SourceValid(v)
     THEN /\ pc' = [pc EXCEPT ![v] = "log"]
          /\ UNCHANGED outcome
     ELSE /\ pc' = [pc EXCEPT ![v] = "done"]
          /\ outcome' = [outcome EXCEPT ![v] = Raised(ValidationFailure(v))]
  /\ UNCHANGED <<cellVars, content, pathExists, todo, cfg, cfgAtEntry, fileStream, reader, rawRows,
                 matrix, lowLevel, formatterInput>>

\* a plausible slip: the notification sent twice
LoggingLoadTwice(v) ==
  /\ pc[v] = "log"
  /\ trace' = [trace EXCEPT ![v] = @ \o <<"logging_load", "logging_load">>]
  /\ pc' = [pc EXCEPT ![v] = IF v = "file" THEN "encoding" ELSE "reader"]
  /\ UNCHANGED <<cellVars, content, pathExists, todo, cfg, cfgAtEntry, fileStream, reader, rawRows,
                 matrix, lowLevel, formatterInput, outcome>>

\* self._logger.logging_load(), lines 169 and 244
LoggingLoad(v) ==
  /\ pc[v] = "log"
  /\ trace' = [trace EXCEPT ![v] = Append(@, "logging_load")]
  /\ pc' = [pc EXCEPT ![v] = IF v = "file" THEN "encoding" ELSE "reader"]
  /\ UNCHANGED <<cellVars, content, pathExists, todo, cfg, cfgAtEntry, fileStream, reader, rawRows,
                 matrix, lowLevel, formatterInput, outcome>>

\* get_file_encoding(path, encoding): the caller's encoding when one is set, else
\* the detected one, else UTF-8
FileEncoding(encoding, detected) ==
  IF encoding # NoneValue THEN encoding
  ELSE IF detected # NoneValue THEN detected
  ELSE "utf-8"

\* self.encoding = get_file_encoding(self.source, self.encoding), line 170
GetFileEncoding ==
  /\ pc["file"] = "encoding"
  /\ \E detected \in Detections :
       cfg' = [cfg EXCEPT !["file"] =
                 AssignEncoding(@, FileEncoding(cfg["file"].encoding, detected))]
  /\ trace' = [trace EXCEPT !["file"] = Append(@, "get_file_encoding")]
  /\ pc' = [pc EXCEPT !["file"] = "open"]
  /\ UNCHANGED <<cellVars, content, pathExists, todo, cfgAtEntry, fileStream, reader, rawRows, matrix,
                 lowLevel, formatterInput, outcome>>

\* io.open(self.source, "r", encoding=self.encoding), line 174
OpenFile ==
  /\ pc["file"] = "open"
  /\ fileStream' = "open"
  /\ trace' = [trace EXCEPT !["file"] = Append(@, "io.open")]
  /\ pc' = [pc EXCEPT !["file"] = "reader"]
  /\ UNCHANGED <<cellVars, content, pathExists, todo, cfg, cfgAtEntry, reader, rawRows, matrix,
                 lowLevel, formatterInput, outcome>>

\* a plausible slip: skipinitialspace left out of the Text variant's reader
ReaderDialectTextNoSkip(v, c) ==
  [delimiter |-> Delimiter(c), quotechar |-> Quotechar(c), strict |-> TRUE,
   skipinitialspace |-> (v = "file")]

\* the keyword arguments of csv.reader, lines 175-178 and 248-251
ReaderDialect(v, c) ==
  [delimiter |-> Delimiter(c), quotechar |-> Quotechar(c), strict |-> TRUE,
   skipinitialspace |-> TRUE]

\* the text the reader iterates: the stream's (line 174), or
\* six.StringIO(self.source.strip()) (line 247)
ReaderInput(v, text) == IF v = "file" THEN UniversalNewlines(text) ELSE Strip(text)

\* self._csv_reader = csv.reader(...), lines 173-179 and 246-252
MakeReader(v) ==
  /\ pc[v] = "reader"
  /\ reader' = [reader EXCEPT ![v] =
                  [made |-> TRUE, dialect |-> ReaderDialect(v, cfg[v]),
                   input |-> ReaderInput(v, content)]]
  /\ trace' = [trace EXCEPT ![v] = Append(@, "csv.reader")]
  /\ pc' = [pc EXCEPT ![v] = "iterate"]
  /\ UNCHANGED <<cellVars, content, pathExists, todo, cfg, cfgAtEntry, fileStream, rawRows, matrix,
                 lowLevel, formatterInput, outcome>>

\* a plausible slip: a row counts as empty when all its cells are empty
IsNotBlankRow(row) == \E j \in 1..Len(row) : row[j] # <<>>

\* "if typepy.is_not_empty_sequence(row)", line 103
RowFilter(row) == IsNotEmptySequence(row)

\* a plausible slip: the new row cut to the width of the first row
CollectRowCut(m, row) ==
  IF ~RowFilter(row) THEN m
  ELSE IF m = <<>> THEN <<[j \in 1..Len(row) |-> ModifyItem(row[j])]>>
  ELSE LET w == IF Len(row) < Len(m[1]) THEN Len(row) ELSE Len(m[1])
       IN Append(m, [j \in 1..w |-> ModifyItem(row[j])])

\* one turn of the comprehension of lines 100-104: the row is dropped, or
\* its cells are normalized and the row joins the matrix
CollectRow(m, row) ==
  IF RowFilter(row) THEN Append(m, [j \in 1..Len(row) |-> ModifyItem(row[j])]) ELSE m

\* a plausible slip: only csv.Error caught
CaughtCsvOnly(err) == IF err = "CsvError" THEN DataError ELSE err

\* "except (csv.Error, UnicodeDecodeError) as e: raise DataError(e)", lines 105-106
Caught(err) == IF err \in {"CsvError", "UnicodeDecodeError"} THEN DataError ELSE err

\* _to_data_matrix, lines 98-106, one row of the reader at a time: a row, the
\* end of the rows, or csv.Error
ReadRow(v) ==
  /\ pc[v] = "iterate"
  /\ LET r == IterNext(reader[v].input, reader[v].dialect)
     IN /\ reader' = [reader EXCEPT ![v].input = r.rest]
        /\ CASE r.kind = "row" ->
                  /\ rawRows' = [rawRows EXCEPT ![v] = Append(@, r.row)]
                  /\ matrix' = [matrix EXCEPT ![v] = CollectRow(@, r.row)]
                  /\ UNCHANGED <<pc, lowLevel, outcome>>
             [] r.kind = "stop" ->
                  /\ pc' = [pc EXCEPT ![v] = "format"]
                  /\ UNCHANGED <<rawRows, matrix, lowLevel, outcome>>
             [] r.kind = "error" ->
                  /\ lowLevel' = [lowLevel EXCEPT ![v] = "CsvError"]
                  /\ outcome' = [outcome EXCEPT ![v] = Raised(Caught("CsvError"))]
                  /\ pc' = [pc EXCEPT ![v] = "done"]
                  /\ UNCHANGED <<rawRows, matrix>>
  /\ UNCHANGED <<cellVars, content, pathExists, todo, cfg, cfgAtEntry, fileStream, trace,
                 formatterInput>>

\* _to_data_matrix, lines 98-106, when the file holds bytes that do not decode
\* under the encoding: the stream raises UnicodeDecodeError as the reader asks
\* it for a line.  content is the text the file's bytes decode to; the bytes
\* that do not decode follow it, or are all the file holds (content <<>>), so
\* the error can come at any request, also the first one and also once all of
\* the decoded text has been read
ReadRowDecodeError ==
  /\ pc["file"] = "iterate"
  /\ lowLevel' = [lowLevel EXCEPT !["file"] = "UnicodeDecodeError"]
  /\ outcome' = [outcome EXCEPT !["file"] = Raised(Caught("UnicodeDecodeError"))]
  /\ pc' = [pc EXCEPT !["file"] = "done"]
  /\ UNCHANGED <<cellVars, content, pathExists, todo, cfg, cfgAtEntry, fileStream, reader, rawRows,
                 matrix, trace, formatterInput>>

\* CsvTableFormatter(matrix), accept(loader) and to_table_data(): no rows is the
\* empty-data condition; else the header is the loader's headers or the first row
FormatTable(m, headers) ==
  IF m = <<>> THEN Raised(EmptyDataCondition)
  ELSE IF headers # <<>>
  THEN [kind |-> "Table", header |-> [j \in 1..Len(headers) |-> TextVal(headers[j])],
        rows |-> m]
  ELSE [kind |-> "Table", header |-> m[1], rows |-> Tail(m)]

\* lines 189-192 and 253-256
Format(v) ==
  /\ pc[v] = "format"
  /\ formatterInput' = [formatterInput EXCEPT ![v] =
                          [calls |-> @.calls + 1, matrix |-> matrix[v]]]
  /\ trace' = [trace EXCEPT ![v] = Append(@, "formatter")]
  /\ outcome' = [outcome EXCEPT ![v] = FormatTable(matrix[v], cfg[v].headers)]
  /\ pc' = [pc EXCEPT ![v] = "done"]
  /\ UNCHANGED <<cellVars, content, pathExists, todo, cfg, cfgAtEntry, fileStream, reader, rawRows,
                 matrix, lowLevel>>

\* CsvTableFileLoader.load (lines 143-192) and CsvTableTextLoader.load
\* (lines 218-256), step by step, under the calling program
Next ==
  \/ \E v \in Variants : Call(v)
  \/ \E v \in Variants : Validate(v)
  \/ \E v \in Variants : LoggingLoad(v)
  \/ GetFileEncoding
  \/ OpenFile
  \/ \E v \in Variants : MakeReader(v)
  \/ \E v \in Variants : ReadRow(v)
  \/ ReadRowDecodeError
  \/ \E v \in Variants : Format(v)

Spec == Init /\ [][Next]_vars

(***************************************************************************)
(* Both variants loaded from the same content with the same configuration: *)
(* the calling program loads the text, then the file.                      *)
(***************************************************************************)
InitEquiv ==
  /\ InitLoaders({<<"text", "file">>}, SeqsUpTo(Alphabet, MaxLen),
                 Configurations({NoneValue}))
  /\ CellIdle

SpecEquiv == InitEquiv /\ [][Next]_vars

(***************************************************************************)
(* The cell normalizer on its own, over every cell up to MaxCellLen.       *)
(***************************************************************************)
InitCell ==
  /\ InitLoaders({<<>>}, {<<>>}, {<<<<>>, NoneValue, COMMA, QUOTE>>})
  /\ cell \in SeqsUpTo(CellAlphabet, MaxCellLen)
  /\ cellResult = [value |-> TextVal(<<>>), attempts |-> <<>>]
  /\ cellDone = FALSE

\* self.__modify_item(data), line 101
NormalizeCell ==
  /\ ~cellDone
  /\ cellResult' = ModifyItemTrace(cell)
  /\ cellDone' = TRUE
  /\ UNCHANGED <<cell, loadVars>>

NextCell == NormalizeCell

SpecCell == InitCell /\ [][NextCell]_vars

(***************************************************************************)
(* The properties checked.                                                 *)
(***************************************************************************)
Count(x, s) == Cardinality({i \in 1..Len(s) : s[i] = x})
HasCells(row) == Len(row) > 0
OnlyEmptyCells(row) == Len(row) > 0 /\ \A j \in 1..Len(row) : row[j] = <<>>
OnlyEmptyText(row) == Len(row) > 0 /\ \A j \in 1..Len(row) : row[j] = TextVal(<<>>)
Ended(v) == pc[v] = "done"

\* C1, as stated: a raw row that consists only of empty-string cells never
\* appears in the data matrix, so every row of the matrix has a cell that is
\* not the empty text.
C1_BlankCellRowsDropped ==
  \A v \in Variants : \A i \in 1..Len(matrix[v]) : ~OnlyEmptyText(matrix[v][i])

\* C1, amended: the row filter drops exactly the raw rows with zero cells (blank
\* lines).  Every row of the matrix has at least one cell, the matrix has as
\* many rows as there were raw rows with cells, and each raw row made only of
\* empty-string cells is in the matrix as a row of empty texts.
C1_OnlyZeroCellRowsDropped ==
  \A v \in Variants :
    /\ \A i \in 1..Len(matrix[v]) : Len(matrix[v][i]) > 0
    /\ Len(matrix[v]) = Cardinality({i \in 1..Len(rawRows[v]) : HasCells(rawRows[v][i])})
    /\ Cardinality({i \in 1..Len(matrix[v]) : OnlyEmptyText(matrix[v][i])})
         = Cardinality({i \in 1..Len(rawRows[v]) : OnlyEmptyCells(rawRows[v][i])})

\* C1, witness: one data row and one row of two empty cells were read, and the
\* matrix handed to the Formatter has two rows.
C1_Witness ==
  \E v \in Variants :
    /\ Ended(v) /\ outcome[v].kind = "Table"
    /\ rawRows[v] = << << <<"a">> >>, << <<>>, <<>> >> >>
    /\ Len(formatterInput[v].matrix) = 2

\* C2: the cell normalizer tries the integer conversion first and returns its
\* integer when it succeeds; only when it failed does it try the real-number
\* conversion, returning the real when that succeeds; when both failed it
\* returns the cell's text.  Every cell gets one of the three, never an error.
C2_OrderedTrial ==
  cellDone =>
    LET i == IntegerConvert(cell)
        r == RealNumberConvert(cell)
    IN /\ cellResult.value.type \in {"int", "real", "text"}
       /\ i.ok => /\ cellResult.value = i.value
                  /\ cellResult.value.type = "int"
                  /\ cellResult.attempts = <<"Integer">>
       /\ (~i.ok /\ r.ok) => /\ cellResult.value = r.value
                             /\ cellResult.value.type = "real"
                             /\ cellResult.attempts = <<"Integer", "RealNumber">>
       /\ (~i.ok /\ ~r.ok) => /\ cellResult.value = TextVal(cell)
                              /\ cellResult.attempts = <<"Integer", "RealNumber">>

\* C2, witness: the cell "1.0", which both conversions accept, came out as the
\* integer 1 after the integer attempt alone.
C2_Witness ==
  /\ cellDone
  /\ cell = <<"1", ".", "0">>
  /\ cellResult = [value |-> IntVal(1, 0), attempts |-> <<"Integer">>]

\* C3: once the tokenizer raised csv.Error or the stream raised
\* UnicodeDecodeError during the iteration, load() has ended with the data
\* error and no table, and the Formatter was never given a matrix; no load()
\* ends with the raw tokenizer or decoding error.
C3_LowLevelErrorsBecomeDataError ==
  \A v \in Variants :
    /\ outcome[v].kind \notin LowLevelErrors
    /\ lowLevel[v] # "none" =>
         /\ Ended(v)
         /\ outcome[v] = Raised(DataError)
         /\ formatterInput[v].calls = 0
         /\ Count("formatter", trace[v]) = 0

\* C3, witness: a row was read and collected, then the tokenizer raised csv.Error.
C3_Witness ==
  \E v \in Variants :
    /\ lowLevel[v] = "CsvError"
    /\ Len(rawRows[v]) >= 1
    /\ matrix[v] # <<>>
    /\ Ended(v)

\* C4, as stated: when CsvTableFileLoader.load() has ended, however it ended,
\* the stream it opened is no longer open.
C4_StreamClosedOnExit ==
  Ended("file") => fileStream # "open"

\* C5: validation is the first thing load() does; when it fails, load() has
\* ended with the validator's own error, which is no data error, and nothing
\* else was done: no notification, no encoding detection, no open file, no
\* reader, no Formatter.
C5_ValidationFirst ==
  \A v \in Variants :
    /\ trace[v] # <<>> => trace[v][1] = "validate"
    /\ pc[v] \in {"idle", "validate"} =>
         /\ trace[v] = <<>> /\ ~reader[v].made /\ formatterInput[v].calls = 0
         /\ (v = "file" => fileStream = "unopened")
    /\ (pc[v] \notin {"idle", "validate"} /\ ~SourceValid(v)) =>
         /\ Ended(v)
         /\ outcome[v] = Raised(ValidationFailure(v))
         /\ outcome[v].kind # DataError
         /\ trace[v] = <<"validate">>
         /\ cfg[v] = cfgAtEntry[v]
         /\ (v = "file" => fileStream = "unopened")
         /\ ~reader[v].made
         /\ formatterInput[v].calls = 0

\* C5, witness: the File variant's load() has ended on a path that names no file.
C5_Witness ==
  /\ Ended("file")
  /\ ~pathExists
  /\ content # <<>>
  /\ outcome["file"].kind = "InvalidFilePathError"

\* the contents and runs C6 compares: both loads have ended, the file was
\* there and its bytes decoded, the text passed its validation
Comparable ==
  /\ Ended("file") /\ Ended("text")
  /\ pathExists
  /\ lowLevel["file"] # "UnicodeDecodeError"
  /\ content # <<>>

SameOutcome ==
  /\ outcome["file"] = outcome["text"]
  /\ formatterInput["file"] = formatterInput["text"]

\* C6, as stated: for every content, also one that begins or ends with
\* whitespace, the File variant and the Text variant end the same way: the same
\* matrix and table, or the same error kind.
C6_VariantsAgree ==
  Comparable => SameOutcome

\* C6, amended: with the same delimiter, quote character and headers set on
\* both, the two variants end the same way for every content that has no
\* leading or trailing whitespace and no carriage return.
C6_VariantsAgreeOnTrimmedText ==
  (Comparable /\ Strip(content) = content /\ Count(CR, content) = 0) => SameOutcome

\* C6, witness: with the delimiter set to ";" and the quote character to "'"
\* on both, both variants returned a table from the trimmed content a;1, one
\* row of two cells.
C6_Witness ==
  /\ Comparable /\ Strip(content) = content /\ Count(CR, content) = 0
  /\ \A v \in Variants :
       /\ cfg[v].delimiter = SEMICOLON /\ cfg[v].quotechar = APOSTROPHE
       /\ outcome[v].kind = "Table"
       /\ formatterInput[v].matrix = << <<TextVal(<<"a">>), IntVal(1, 0)>> >>

\* C8, as stated: when load() has ended, whatever its outcome, the logging
\* collaborator was notified exactly once.
C8_NotifiedOnceWhateverOutcome ==
  \A v \in Variants : Ended(v) => Count("logging_load", trace[v]) = 1

\* C8, amended: when load() has ended, the logging collaborator was notified
\* exactly once if the source passed validation and not at all if it failed
\* it; right after the notification the loader's matrix, outcome, reader and
\* configuration are what they were before it.
C8_NotifiedOnceAfterValidation ==
  \A v \in Variants :
    /\ Ended(v) => Count("logging_load", trace[v]) = (IF SourceValid(v) THEN 1 ELSE 0)
    /\ Count("logging_load", trace[v]) <= 1
    /\ (trace[v] # <<>> /\ trace[v][Len(trace[v])] = "logging_load") =>
         /\ matrix[v] = <<>> /\ outcome[v] = NoOutcome /\ ~reader[v].made
         /\ cfg[v] = cfgAtEntry[v]

\* C8, witness: a load() that returned a table notified once.
C8_Witness ==
  \E v \in Variants :
    /\ Ended(v) /\ outcome[v].kind = "Table"
    /\ Count("logging_load", trace[v]) = 1

\* C9: the matrix holds exactly the raw rows that have cells, in the order
\* read; each row is as wide as its raw row and its cell j is the
\* normalization of raw cell j.  When the rows tokenized without error, the
\* raw rows are all the rows of the source and the Formatter got this matrix.
C9_ShapeAndOrderKept ==
  \A v \in Variants :
    LET kept == SelectSeq(rawRows[v], HasCells)
    IN /\ Len(matrix[v]) = Len(kept)
       /\ \A i \in 1..Len(matrix[v]) :
            /\ Len(matrix[v][i]) = Len(kept[i])
            /\ \A j \in 1..Len(kept[i]) : matrix[v][i][j] = ModifyItem(kept[i][j])
       /\ formatterInput[v].calls = 1 =>
            /\ formatterInput[v].matrix = matrix[v]
            /\ rawRows[v] = AllRows(ReaderInput(v, content), reader[v].dialect)

\* C9, witness: a table from two rows of different widths, the first of them
\* not as wide as the explicit header list.
C9_Witness ==
  \E v \in Variants :
    /\ Ended(v) /\ outcome[v].kind = "Table"
    /\ cfg[v].headers # <<>>
    /\ Len(formatterInput[v].matrix) = 2
    /\ Len(formatterInput[v].matrix[1]) # Len(formatterInput[v].matrix[2])
    /\ Len(formatterInput[v].matrix[1]) # Len(cfg[v].headers)

\* C10, as stated: when load() has ended, the loader's configuration is what
\* it was when load() was entered; an unset encoding is still unset.
C10_ConfigurationUnchanged ==
  \A v \in Variants : Ended(v) => cfg[v] = cfgAtEntry[v]

\* C10, amended: load() leaves the delimiter, the quote character, the header
\* list and the table-name template as they were; the Text variant leaves the
\* encoding too.  The File variant stores the resolved encoding once it has
\* resolved it: an encoding that was set is kept, an unset one is replaced by
\* the detected or default encoding and is no longer unset.
C10_OnlyEncodingResolved ==
  \A v \in Variants :
    /\ cfg[v].delimiter = cfgAtEntry[v].delimiter
    /\ cfg[v].quotechar = cfgAtEntry[v].quotechar
    /\ cfg[v].headers = cfgAtEntry[v].headers
    /\ cfg[v].table_name = cfgAtEntry[v].table_name
    /\ IF Count("get_file_encoding", trace[v]) = 0
       THEN cfg[v].encoding = cfgAtEntry[v].encoding
       ELSE /\ v = "file"
            /\ cfg[v].encoding # NoneValue
            /\ cfgAtEntry[v].encoding # NoneValue => cfg[v].encoding = cfgAtEntry[v].encoding

\* C10, witness: a File-variant load() entered with the delimiter set to ";",
\* the quote character to "'" and the encoding unset returned a table, kept
\* the two characters and left the encoding "utf-8".
C10_Witness ==
  /\ Ended("file") /\ outcome["file"].kind = "Table"
  /\ cfgAtEntry["file"].delimiter = SEMICOLON /\ cfg["file"].delimiter = SEMICOLON
  /\ cfgAtEntry["file"].quotechar = APOSTROPHE /\ cfg["file"].quotechar = APOSTROPHE
  /\ cfgAtEntry["file"].encoding = NoneValue
  /\ cfg["file"].encoding = "utf-8"

====
